---- MODULE Spec2Model ----
(***************************************************************************)
(* Model of the asynchronous voice-synthesis cache of words-battles:       *)
(* SoundManager (src/sound_manager.py) driven by the game loop of          *)
(* src/main.py.                                                            *)
(*                                                                         *)
(* Threads: the game loop (the consumer: play_voice, update, play_se,      *)
(* the volume setters, restart) and one daemon worker thread per          *)
(* SoundManager                                                            *)
(* ever constructed.  A restart constructs a new SoundManager; the thread  *)
(* of the previous one keeps running on the previous object's queue, set,  *)
(* channel and lock, and writes into the same assets/voice directory.      *)
(* The per-object shared state is therefore a sequence indexed by the      *)
(* SoundManager's construction number; the consumer-only fields            *)
(* (voice_cache, se_cache, pending_play and the volumes) are kept for the  *)
(* SoundManager the game currently references, since no code reads or      *)
(* writes them on an abandoned object.                                     *)
(*                                                                         *)
(* Volumes are in tenths (0.3 is 3); words are sequences of characters.    *)
(***************************************************************************)
EXTENDS Integers, Sequences, FiniteSets, TLC

\* ------------------------------------------------------------------ bounds

\* SoundManager objects constructed in one process (restarts + 1).
MaxManagers == 2
\* Completion records the consumer lets pile up before it stops requesting.
MaxReady == 2

\* ------------------------------------------------------------------ inputs

\* Words the game may pass to play_voice (card.word), raw.
Words == { <<"A">>, <<" ", "a", " ">>, <<"b">>, <<" ">>, <<>> }
\* File names the game passes to play_se                main.py:781, 811, 826
SeNames == { "correct.mp3", "wrong.mp3", "attack.mp3" }
\* Files present in assets/sounds.
SoundDirFiles == { "correct.mp3", "wrong.mp3" }
\* Volume values handed to set_volume_bgm/se/voice, in tenths.
VolInputs == { -5, 5, 15 }
\* Contents of the saved volume settings when the process starts: the defaults
\* of a new save file (main.py:268), and a hand-edited file with values out of
\* range.
SavedFiles == { [bgm |-> 3, se |-> 6, voice |-> 8],
                [bgm |-> -5, se |-> 15, voice |-> 5] }
\* The volume settings of a new save file.                      main.py:268
DefaultSave == [bgm |-> 3, se |-> 6, voice |-> 8]

None == << "None" >>

\* ------------------------------------------------------------ pure helpers

IsSpace(c) == c = " "

LowerChar(c) ==
    CASE c = "A" -> "a"
      [] c = "B" -> "b"
      [] OTHER -> c

\* str.lower()
Lower(w) == [i \in 1..Len(w) |-> LowerChar(w[i])]

RECURSIVE LStrip(_)
LStrip(w) ==
    IF w # <<>> /\ IsSpace(Head(w)) THEN LStrip(Tail(w)) ELSE w

RECURSIVE RStrip(_)
RStrip(w) ==
    IF w # <<>> /\ IsSpace(w[Len(w)]) THEN RStrip(SubSeq(w, 1, Len(w) - 1)) ELSE w

\* str.strip()
Strip(w) == RStrip(LStrip(w))

\* word.lower().strip()                                  sound_manager.py:124
Normalize(w) == Strip(Lower(w))

\* os.path.join("assets", "voice")                       sound_manager.py:19
voice_dir == << "assets", "voice" >>

\* play_voice: f"{word}.mp3" joined to voice_dir      sound_manager.py:135-136
PlayVoicePath(word) == voice_dir \o << word \o << ".mp3" >> >>

\* Mutant: the worker writes the file without the extension.
GeneratePathNoExt(word) == voice_dir \o << word >>

\* _generate_and_cache: the same derivation           sound_manager.py:173-174
GeneratePath(word) == voice_dir \o << word \o << ".mp3" >> >>

\* max(0.0, min(1.0, vol)), in tenths
Min2(a, b) == IF a < b THEN a ELSE b
Max2(a, b) == IF a > b THEN a ELSE b

\* Mutant: the upper limit is forgotten.
ClampNoUpper(vol) == Max2(0, vol)

\* max(0.0, min(1.0, vol))               sound_manager.py:89, 94, 100
Clamp(vol) == Max2(0, Min2(10, vol))

\* A freshly constructed pygame.mixer.Sound has volume 1.0.
DefaultSoundVolume == 10

\* Initial volume levels                               sound_manager.py:40-42
InitVolumeBgm == 3
InitVolumeSe == 6
InitVolumeVoice == 8

\* print(f"Error loading generated voice for {word}: {e}")
\*                                                          sound_manager.py:62
LogGenerated(word) == << "Error loading generated voice for" >> \o word
\* print(f"Error loading voice cache for {word}: {e}")   sound_manager.py:146
LogVoiceCache(word) == << "Error loading voice cache for" >> \o word
\* print(f"Error generating TTS for {word}: {e}")        sound_manager.py:186
LogTTS(word) == << "Error generating TTS for" >> \o word

\* ------------------------------------------------------------------- state

VARIABLES
    mixer_ok,          \* pygame.mixer.init() succeeded
    crashed,           \* an exception left the game loop's thread
    disk,              \* assets/voice: path -> "partial" | "full"
    cur,               \* number of SoundManagers constructed; the current one
    generation_queue,  \* [m] list of words pending generation
    ready_queue,       \* [m] list of <<word, path>>
    generating_words,  \* [m] set of words
    lock,              \* [m] "free" | "consumer" | "worker"
    wpc,               \* [m] position of the worker thread of manager m
    word_to_process,   \* [m] the word the worker popped, or None
    voice_cache,       \* current manager: word -> volume of its Sound
    se_cache,          \* current manager: filename -> volume of its Sound
    pending_play,      \* current manager: word or None
    volume_bgm, volume_se, volume_voice,
    cpc,               \* position of the game loop inside play_voice/update
    cword,             \* the word of the play_voice call in progress
    played,            \* audio output of the last step: the key or file name
                       \* whose asset had play() called, or None
    logged             \* console output of the last step: the message of the
                       \* except branch it went through, or None

shared == << generation_queue, ready_queue, generating_words, lock >>
worker == << wpc, word_to_process >>
consumer == << voice_cache, se_cache, pending_play, volume_bgm, volume_se,
               volume_voice, cpc, cword >>
vars == << mixer_ok, crashed, disk, cur, shared, worker, consumer, played,
          logged >>

FileState(path) == IF path \in DOMAIN disk THEN disk[path] ELSE "none"

\* The keys the input words normalise to.
Keys == { Normalize(w) : w \in Words } \ { << >> }

\* os.path.exists(path)
Exists(path) == path \in DOMAIN disk /\ disk[path] # "none"

\* Outcomes of pygame.mixer.Sound(path): TRUE loads, FALSE raises.  A file that
\* is being written, or was left truncated by a failed save, may or may not
\* decode.
LoadOutcomes(path) ==
    IF ~Exists(path) THEN {FALSE}
    ELSE IF disk[path] = "full" THEN {TRUE}
    ELSE {TRUE, FALSE}

\* Whether some worker other than m has the file of path open for writing.
OtherWriter(m, path) ==
    \E o \in 1..cur : o # m /\ wpc[o] = "save" /\ GeneratePath(word_to_process[o]) = path

\* Mutant: the new level is stored but not applied to the loaded assets.
SetNone(cache, level) == cache

\* for sound in cache.values(): sound.set_volume(level)
\*                                             sound_manager.py:95-96, 101-102
SetAll(cache, level) == [k \in DOMAIN cache |-> level]

\* set_volume_bgm                                        sound_manager.py:87-90
\* ----------------------------------------------------- SoundManager.__init__

\* The state when SoundManager() returns inside Game._init_game_state.  The
\* durable store holds what earlier runs left: nothing, a complete file, or the
\* truncated file of a run that ended during a save.  A failed
\* pygame.mixer.init() is caught and printed (lines 13-16).
Init ==
    /\ mixer_ok \in BOOLEAN
    /\ crashed = FALSE
    /\ disk \in [ { PlayVoicePath(k) : k \in Keys } -> { "none", "partial", "full" } ]
    /\ cur = 1
    /\ generation_queue = << << >> >>
    /\ ready_queue = << << >> >>
    /\ generating_words = << {} >>
    /\ lock = << "free" >>
    /\ wpc = << "idle" >>
    /\ word_to_process = << None >>
    /\ voice_cache = << >>
    /\ se_cache = << >>
    /\ pending_play = None
    /\ volume_bgm = InitVolumeBgm
    /\ volume_se = InitVolumeSe
    /\ volume_voice = InitVolumeVoice
    /\ cpc = "start"
    /\ cword = None
    /\ played = None
    /\ logged = None

\* The first run of a new install: an empty assets/voice.
InitFresh ==
    /\ Init
    /\ \A path \in DOMAIN disk : disk[path] = "none"

\* _init_game_state applies the saved volumes right after the construction
\* (main.py:1478-1480).  set_volume_bgm stores the level and then calls
\* pygame.mixer.music.set_volume, which raises pygame.error when the mixer is
\* not initialised; nothing catches it, so Game.__init__ does not return.
ApplySavedVolumes(saved) ==
    /\ ~crashed
    /\ cpc = "start"
    /\ volume_bgm' = Clamp(saved.bgm)
    /\ crashed' = ~mixer_ok
    /\ IF mixer_ok
         THEN /\ volume_se' = Clamp(saved.se)
              /\ volume_voice' = Clamp(saved.voice)
              /\ se_cache' = SetAll(se_cache, volume_se')
              /\ voice_cache' = SetAll(voice_cache, volume_voice')
              /\ cpc' = "idle"
         ELSE UNCHANGED << volume_se, volume_voice, se_cache, voice_cache, cpc >>
    /\ played' = None
    /\ logged' = None
    /\ UNCHANGED << mixer_ok, disk, cur, shared, worker, pending_play, cword >>

\* ------------------------------------------------------- _generation_worker

\* with self.lock:                                          sound_manager.py:162
\* Nothing is ever appended to the queue of an abandoned SoundManager, so once
\* that queue is empty its worker only polls (acquire, find nothing, sleep), on
\* a lock no other thread takes; those polls are left out.
WorkerAcquirePop(m) ==
    /\ wpc[m] = "idle"
    /\ lock[m] = "free"
    /\ m = cur \/ generation_queue[m] # << >>
    /\ lock' = [lock EXCEPT ![m] = "worker"]
    /\ wpc' = [wpc EXCEPT ![m] = "pop"]
    /\ UNCHANGED << mixer_ok, crashed, disk, cur, generation_queue, ready_queue,
                    generating_words, word_to_process, consumer >>
    /\ played' = None
    /\ logged' = None

\* Mutant: the generation is started inside the with block, so the lock stays
\* held while the backend is called.
WorkerPopKeepLock(m) ==
    /\ wpc[m] = "pop"
    /\ lock[m] = "worker"
    /\ IF generation_queue[m] # << >>
         THEN /\ word_to_process' = [word_to_process EXCEPT ![m] = Head(generation_queue[m])]
              /\ generation_queue' = [generation_queue EXCEPT ![m] = Tail(@)]
              /\ wpc' = [wpc EXCEPT ![m] = "generate"]
              /\ lock' = lock
         ELSE /\ word_to_process' = [word_to_process EXCEPT ![m] = None]
              /\ generation_queue' = generation_queue
              /\ wpc' = [wpc EXCEPT ![m] = "sleep"]
              /\ lock' = [lock EXCEPT ![m] = "free"]
    /\ UNCHANGED << mixer_ok, crashed, disk, cur, ready_queue, generating_words,
                    consumer >>
    /\ played' = None
    /\ logged' = None
\* Mutant: pop() instead of pop(0): the most recently queued word is taken.
WorkerPopLast(m) ==
    /\ wpc[m] = "pop"
    /\ lock[m] = "worker"
    /\ IF generation_queue[m] # << >>
         THEN /\ word_to_process' = [word_to_process EXCEPT
                                       ![m] = generation_queue[m][Len(generation_queue[m])]]
              /\ generation_queue' = [generation_queue EXCEPT
                                        ![m] = SubSeq(@, 1, Len(@) - 1)]
              /\ wpc' = [wpc EXCEPT ![m] = "generate"]
         ELSE /\ word_to_process' = [word_to_process EXCEPT ![m] = None]
              /\ generation_queue' = generation_queue
              /\ wpc' = [wpc EXCEPT ![m] = "sleep"]
    /\ lock' = [lock EXCEPT ![m] = "free"]
    /\ UNCHANGED << mixer_ok, crashed, disk, cur, ready_queue, generating_words,
                    consumer >>
    /\ played' = None
    /\ logged' = None

\* if self.generation_queue: word_to_process = pop(0)   sound_manager.py:163-168
WorkerPop(m) ==
    /\ wpc[m] = "pop"
    /\ lock[m] = "worker"
    /\ IF generation_queue[m] # << >>
         THEN /\ word_to_process' = [word_to_process EXCEPT ![m] = Head(generation_queue[m])]
              /\ generation_queue' = [generation_queue EXCEPT ![m] = Tail(@)]
              /\ wpc' = [wpc EXCEPT ![m] = "generate"]
         ELSE /\ word_to_process' = [word_to_process EXCEPT ![m] = None]
              /\ generation_queue' = generation_queue
              /\ wpc' = [wpc EXCEPT ![m] = "sleep"]
    /\ lock' = [lock EXCEPT ![m] = "free"]
    /\ UNCHANGED << mixer_ok, crashed, disk, cur, ready_queue, generating_words,
                    consumer >>
    /\ played' = None
    /\ logged' = None

\* time.sleep(0.1)                                          sound_manager.py:169
WorkerSleep(m) ==
    /\ wpc[m] = "sleep"
    /\ wpc' = [wpc EXCEPT ![m] = "idle"]
    /\ UNCHANGED << mixer_ok, crashed, disk, cur, shared, word_to_process,
                    consumer >>
    /\ played' = None
    /\ logged' = None

\* ------------------------------------------------------ _generate_and_cache

\* gTTS(...); tts.save(path) opens path for writing, which creates or truncates
\* the file before any audio is fetched.                sound_manager.py:178-179
WorkerOpen(m) ==
    /\ wpc[m] = "generate"
    /\ disk' = (GeneratePath(word_to_process[m]) :> "partial") @@ disk
    /\ wpc' = [wpc EXCEPT ![m] = "save"]
    /\ UNCHANGED << mixer_ok, crashed, cur, shared, word_to_process, consumer >>
    /\ played' = None
    /\ logged' = None

\* gTTS(...) or the open of path raises: nothing is written.
WorkerGenerateFail(m) ==
    /\ wpc[m] = "generate"
    /\ wpc' = [wpc EXCEPT ![m] = "except"]
    /\ UNCHANGED << mixer_ok, crashed, disk, cur, shared, word_to_process,
                    consumer >>
    /\ played' = None
    /\ logged' = LogTTS(word_to_process[m])
\* Mutant: a failed save removes the file it was writing.
WorkerSaveFailRemove(m) ==
    /\ wpc[m] = "save"
    /\ wpc' = [wpc EXCEPT ![m] = "except"]
    /\ disk' = (GeneratePath(word_to_process[m]) :> "none") @@ disk
    /\ UNCHANGED << mixer_ok, crashed, cur, shared, word_to_process, consumer >>
    /\ played' = None
    /\ logged' = LogTTS(word_to_process[m])

\* The backend or the write fails during tts.save: the truncated file stays.
WorkerSaveFail(m) ==
    /\ wpc[m] = "save"
    /\ wpc' = [wpc EXCEPT ![m] = "except"]
    /\ UNCHANGED << mixer_ok, crashed, disk, cur, shared, word_to_process,
                    consumer >>
    /\ played' = None
    /\ logged' = LogTTS(word_to_process[m])

\* tts.save(path) returns.  The file is complete unless another worker still
\* has the same path open for writing.
WorkerSaveDone(m) ==
    /\ wpc[m] = "save"
    /\ LET path == GeneratePath(word_to_process[m]) IN
         disk' = (path :> (IF OtherWriter(m, path) THEN "partial" ELSE "full")) @@ disk
    /\ wpc' = [wpc EXCEPT ![m] = "saved"]
    /\ UNCHANGED << mixer_ok, crashed, cur, shared, word_to_process, consumer >>
    /\ played' = None
    /\ logged' = None

\* with self.lock:                                          sound_manager.py:181
WorkerAcquirePublish(m) ==
    /\ wpc[m] = "saved"
    /\ lock[m] = "free"
    /\ lock' = [lock EXCEPT ![m] = "worker"]
    /\ wpc' = [wpc EXCEPT ![m] = "publish"]
    /\ UNCHANGED << mixer_ok, crashed, disk, cur, generation_queue, ready_queue,
                    generating_words, word_to_process, consumer >>
    /\ played' = None
    /\ logged' = None
\* Mutant: the record is appended a second time.
WorkerPublishTwice(m) ==
    /\ wpc[m] = "publish"
    /\ lock[m] = "worker"
    /\ LET word == word_to_process[m] IN
         /\ ready_queue' = [ready_queue EXCEPT
                              ![m] = Append(Append(@, << word, GeneratePath(word) >>),
                                            << word, GeneratePath(word) >>)]
         /\ generating_words' = [generating_words EXCEPT ![m] = @ \ {word}]
    /\ lock' = [lock EXCEPT ![m] = "free"]
    /\ wpc' = [wpc EXCEPT ![m] = "idle"]
    /\ word_to_process' = [word_to_process EXCEPT ![m] = None]
    /\ UNCHANGED << mixer_ok, crashed, disk, cur, generation_queue, consumer >>
    /\ played' = None
    /\ logged' = None

\* ready_queue.append((word, path)); generating_words.discard(word)
\*                                                      sound_manager.py:182-183
WorkerPublish(m) ==
    /\ wpc[m] = "publish"
    /\ lock[m] = "worker"
    /\ LET word == word_to_process[m] IN
         /\ ready_queue' = [ready_queue EXCEPT
                              ![m] = Append(@, << word, GeneratePath(word) >>)]
         /\ generating_words' = [generating_words EXCEPT ![m] = @ \ {word}]
    /\ lock' = [lock EXCEPT ![m] = "free"]
    /\ wpc' = [wpc EXCEPT ![m] = "idle"]
    /\ word_to_process' = [word_to_process EXCEPT ![m] = None]
    /\ UNCHANGED << mixer_ok, crashed, disk, cur, generation_queue, consumer >>
    /\ played' = None
    /\ logged' = None
\* Mutant: the exception is not caught and ends the worker thread.
WorkerExceptDie(m) ==
    /\ wpc[m] = "except"
    /\ wpc' = [wpc EXCEPT ![m] = "dead"]
    /\ UNCHANGED << mixer_ok, crashed, disk, cur, shared, word_to_process,
                    consumer >>
    /\ played' = None
    /\ logged' = None

\* except Exception: ... with self.lock:                sound_manager.py:185-187
WorkerAcquireExcept(m) ==
    /\ wpc[m] = "except"
    /\ lock[m] = "free"
    /\ lock' = [lock EXCEPT ![m] = "worker"]
    /\ wpc' = [wpc EXCEPT ![m] = "discard"]
    /\ UNCHANGED << mixer_ok, crashed, disk, cur, generation_queue, ready_queue,
                    generating_words, word_to_process, consumer >>
    /\ played' = None
    /\ logged' = None

\* Mutant: the except branch forgets to discard the word.
WorkerDiscardKeep(m) ==
    /\ wpc[m] = "discard"
    /\ lock[m] = "worker"
    /\ lock' = [lock EXCEPT ![m] = "free"]
    /\ wpc' = [wpc EXCEPT ![m] = "idle"]
    /\ word_to_process' = [word_to_process EXCEPT ![m] = None]
    /\ UNCHANGED << mixer_ok, crashed, disk, cur, generation_queue, ready_queue,
                    generating_words, consumer >>
    /\ played' = None
    /\ logged' = None
\* Mutant: a failed word is put back into the queue for another attempt.
WorkerDiscardRetry(m) ==
    /\ wpc[m] = "discard"
    /\ lock[m] = "worker"
    /\ generation_queue' = [generation_queue EXCEPT ![m] = Append(@, word_to_process[m])]
    /\ lock' = [lock EXCEPT ![m] = "free"]
    /\ wpc' = [wpc EXCEPT ![m] = "idle"]
    /\ word_to_process' = [word_to_process EXCEPT ![m] = None]
    /\ UNCHANGED << mixer_ok, crashed, disk, cur, ready_queue, generating_words,
                    consumer >>
    /\ played' = None
    /\ logged' = None

\* generating_words.discard(word)                           sound_manager.py:188
WorkerDiscard(m) ==
    /\ wpc[m] = "discard"
    /\ lock[m] = "worker"
    /\ generating_words' = [generating_words EXCEPT ![m] = @ \ {word_to_process[m]}]
    /\ lock' = [lock EXCEPT ![m] = "free"]
    /\ wpc' = [wpc EXCEPT ![m] = "idle"]
    /\ word_to_process' = [word_to_process EXCEPT ![m] = None]
    /\ UNCHANGED << mixer_ok, crashed, disk, cur, generation_queue, ready_queue,
                    consumer >>
    /\ played' = None
    /\ logged' = None

\* ------------------------------------------------------------- play_voice

\* Mutant: the membership test is dropped and every miss is enqueued.
ShouldEnqueueAlways(m, word) == TRUE

\* Mutant: the membership test is inverted.
ShouldEnqueueInverted(m, word) == word \in generating_words[m]

\* if word not in self.generating_words                     sound_manager.py:153
ShouldEnqueue(m, word) == word \notin generating_words[m]

\* Mutant: the test for an empty word is dropped.
NotWordNever(word) == FALSE

\* if not word: return                                  sound_manager.py:125-126
NotWord(word) == word = << >>

\* Mutant: a cached asset is played at the volume it has.
HitVolumeKeep(old, level) == old

\* self.voice_cache[word].set_volume(self.volume_voice)     sound_manager.py:130
HitVolume(old, level) == level

\* Mutant: the asset loaded from disk keeps the volume of a new Sound.
LoadedVolumeDefault(level) == DefaultSoundVolume

\* sound.set_volume(self.volume_voice)                      sound_manager.py:141
LoadedVolume(level) == level

\* Mutant: the first request keeps the auto-play target.
NewPendingKeepFirst(old, word) == IF old = None THEN word ELSE old

\* self.pending_play = word                                 sound_manager.py:150
NewPending(old, word) == word

\* Mutant: a file that fails to load ends the call instead of falling through
\* to the generation.
PlayVoiceNoFallthrough(w) ==
    /\ ~crashed
    /\ cpc = "idle"
    /\ Len(ready_queue[cur]) < MaxReady
    /\ LET word == Normalize(w)
           path == PlayVoicePath(word)
       IN
       IF NotWord(word)
         THEN /\ played' = None
              /\ logged' = None
              /\ UNCHANGED << voice_cache, pending_play, cpc, cword >>
       ELSE IF word \in DOMAIN voice_cache
         THEN /\ voice_cache' = [voice_cache EXCEPT ![word] = HitVolume(@, volume_voice)]
              /\ played' = word
              /\ logged' = None
              /\ UNCHANGED << pending_play, cpc, cword >>
       ELSE \E ok \in LoadOutcomes(path) :
              IF ok
                THEN /\ voice_cache' = (word :> LoadedVolume(volume_voice)) @@ voice_cache
                     /\ played' = word
                     /\ logged' = None
                     /\ UNCHANGED << pending_play, cpc, cword >>
                ELSE IF Exists(path)
                  THEN /\ played' = None
                       /\ logged' = LogVoiceCache(word)
                       /\ UNCHANGED << voice_cache, pending_play, cpc, cword >>
                  ELSE /\ pending_play' = NewPending(pending_play, word)
                       /\ cpc' = "pv_lock"
                       /\ cword' = word
                       /\ played' = None
                       /\ logged' = None
                       /\ UNCHANGED voice_cache
    /\ UNCHANGED << mixer_ok, crashed, disk, cur, shared, worker, se_cache,
                    volume_bgm, volume_se, volume_voice >>

\* Lines 124-150: normalise, memory cache, disk cache, set pending_play.
PlayVoice(w) ==
    /\ ~crashed
    /\ cpc = "idle"
    /\ Len(ready_queue[cur]) < MaxReady
    /\ LET word == Normalize(w)
           path == PlayVoicePath(word)
       IN
       IF NotWord(word)
         THEN /\ played' = None
              /\ logged' = None
              /\ UNCHANGED << voice_cache, pending_play, cpc, cword >>
       ELSE IF word \in DOMAIN voice_cache
         THEN /\ voice_cache' = [voice_cache EXCEPT ![word] = HitVolume(@, volume_voice)]
              /\ played' = word
              /\ logged' = None
              /\ UNCHANGED << pending_play, cpc, cword >>
       ELSE \E ok \in LoadOutcomes(path) :
              IF ok
                THEN /\ voice_cache' = (word :> LoadedVolume(volume_voice)) @@ voice_cache
                     /\ played' = word
                     /\ logged' = None
                     /\ UNCHANGED << pending_play, cpc, cword >>
                ELSE /\ pending_play' = NewPending(pending_play, word)
                     /\ cpc' = "pv_lock"
                     /\ cword' = word
                     /\ played' = None
                     /\ logged' = IF Exists(path) THEN LogVoiceCache(word) ELSE None
                     /\ UNCHANGED voice_cache
    /\ UNCHANGED << mixer_ok, crashed, disk, cur, shared, worker, se_cache,
                    volume_bgm, volume_se, volume_voice >>
\* Mutant: the word is queued without taking the lock.
PlayVoiceEnqueueUnlocked ==
    /\ ~crashed
    /\ cpc = "pv_lock"
    /\ IF ShouldEnqueue(cur, cword)
         THEN /\ generation_queue' = [generation_queue EXCEPT ![cur] = Append(@, cword)]
              /\ generating_words' = [generating_words EXCEPT ![cur] = @ \cup {cword}]
         ELSE /\ UNCHANGED << generation_queue, generating_words >>
    /\ played' = None
    /\ logged' = None
    /\ cpc' = "idle"
    /\ cword' = None
    /\ UNCHANGED << mixer_ok, crashed, disk, cur, ready_queue, lock, worker,
                    voice_cache, se_cache, pending_play, volume_bgm, volume_se,
                    volume_voice >>

\* with self.lock:                                          sound_manager.py:152
PlayVoiceAcquire ==
    /\ ~crashed
    /\ cpc = "pv_lock"
    /\ lock[cur] = "free"
    /\ lock' = [lock EXCEPT ![cur] = "consumer"]
    /\ cpc' = "pv_cs"
    /\ played' = None
    /\ logged' = None
    /\ UNCHANGED << mixer_ok, crashed, disk, cur, generation_queue, ready_queue,
                    generating_words, worker, voice_cache, se_cache, pending_play,
                    volume_bgm, volume_se, volume_voice, cword >>

\* Lines 153-155, then the lock is released.
PlayVoiceEnqueue ==
    /\ ~crashed
    /\ cpc = "pv_cs"
    /\ lock[cur] = "consumer"
    /\ IF ShouldEnqueue(cur, cword)
         THEN /\ generation_queue' = [generation_queue EXCEPT ![cur] = Append(@, cword)]
              /\ generating_words' = [generating_words EXCEPT ![cur] = @ \cup {cword}]
         ELSE /\ UNCHANGED << generation_queue, generating_words >>
    /\ played' = None
    /\ logged' = None
    /\ lock' = [lock EXCEPT ![cur] = "free"]
    /\ cpc' = "idle"
    /\ cword' = None
    /\ UNCHANGED << mixer_ok, crashed, disk, cur, ready_queue, worker, voice_cache,
                    se_cache, pending_play, volume_bgm, volume_se, volume_voice >>

\* ------------------------------------------------------------------ update

\* with self.lock:                                           sound_manager.py:50
UpdateAcquire ==
    /\ ~crashed
    /\ cpc = "idle"
    /\ lock[cur] = "free"
    /\ lock' = [lock EXCEPT ![cur] = "consumer"]
    /\ cpc' = "update"
    /\ played' = None
    /\ logged' = None
    /\ UNCHANGED << mixer_ok, crashed, disk, cur, generation_queue, ready_queue,
                    generating_words, worker, voice_cache, se_cache, pending_play,
                    volume_bgm, volume_se, volume_voice, cword >>

\* Mutant: every loaded record is played.
ShouldAutoPlayAlways(pending, word) == TRUE

\* if self.pending_play == word                              sound_manager.py:58
ShouldAutoPlay(pending, word) == pending = word
\* Mutant: the load is not guarded, so a load error leaves update.
UpdateRecordRaise ==
    /\ ~crashed
    /\ cpc = "update"
    /\ lock[cur] = "consumer"
    /\ ready_queue[cur] # << >>
    /\ LET word == Head(ready_queue[cur])[1]
           path == Head(ready_queue[cur])[2]
       IN
       /\ ready_queue' = [ready_queue EXCEPT ![cur] = Tail(@)]
       /\ \E ok \in LoadOutcomes(path) :
            IF ok
              THEN /\ voice_cache' = (word :> DefaultSoundVolume) @@ voice_cache
                   /\ logged' = None
                   /\ crashed' = FALSE
                   /\ IF ShouldAutoPlay(pending_play, word)
                        THEN /\ pending_play' = None
                             /\ played' = word
                        ELSE /\ pending_play' = pending_play
                             /\ played' = None
              ELSE /\ UNCHANGED << voice_cache, pending_play >>
                   /\ played' = None
                   /\ logged' = None
                   /\ crashed' = TRUE
    /\ UNCHANGED << mixer_ok, disk, cur, generation_queue, generating_words,
                    lock, worker, se_cache, volume_bgm, volume_se, volume_voice,
                    cpc, cword >>
\* Mutant: update replaces the cache by the one new asset.
UpdateRecordReplaceCache ==
    /\ ~crashed
    /\ cpc = "update"
    /\ lock[cur] = "consumer"
    /\ ready_queue[cur] # << >>
    /\ LET word == Head(ready_queue[cur])[1]
           path == Head(ready_queue[cur])[2]
       IN
       /\ ready_queue' = [ready_queue EXCEPT ![cur] = Tail(@)]
       /\ \E ok \in LoadOutcomes(path) :
            IF ok
              THEN /\ voice_cache' = (word :> DefaultSoundVolume)
                   /\ logged' = None
                   /\ IF ShouldAutoPlay(pending_play, word)
                        THEN /\ pending_play' = None
                             /\ played' = word
                        ELSE /\ pending_play' = pending_play
                             /\ played' = None
              ELSE /\ UNCHANGED << voice_cache, pending_play >>
                   /\ played' = None
                   /\ logged' = LogGenerated(word)
    /\ UNCHANGED << mixer_ok, crashed, disk, cur, generation_queue, generating_words,
                    lock, worker, se_cache, volume_bgm, volume_se, volume_voice,
                    cpc, cword >>
\* Mutant: the lock is taken with acquire() and released at the end of the
\* loop, so a load error leaves update with the lock still held.
UpdateRecordLeakLock ==
    /\ ~crashed
    /\ cpc = "update"
    /\ lock[cur] = "consumer"
    /\ ready_queue[cur] # << >>
    /\ LET word == Head(ready_queue[cur])[1]
           path == Head(ready_queue[cur])[2]
       IN
       /\ ready_queue' = [ready_queue EXCEPT ![cur] = Tail(@)]
       /\ \E ok \in LoadOutcomes(path) :
            IF ok
              THEN /\ voice_cache' = (word :> DefaultSoundVolume) @@ voice_cache
                   /\ logged' = None
                   /\ cpc' = cpc
                   /\ IF ShouldAutoPlay(pending_play, word)
                        THEN /\ pending_play' = None
                             /\ played' = word
                        ELSE /\ pending_play' = pending_play
                             /\ played' = None
              ELSE /\ UNCHANGED << voice_cache, pending_play >>
                   /\ played' = None
                   /\ logged' = LogGenerated(word)
                   /\ cpc' = "idle"
    /\ UNCHANGED << mixer_ok, crashed, disk, cur, generation_queue, generating_words,
                    lock, worker, se_cache, volume_bgm, volume_se, volume_voice,
                    cword >>

\* One iteration of while self.ready_queue:              sound_manager.py:51-62
UpdateRecord ==
    /\ ~crashed
    /\ cpc = "update"
    /\ lock[cur] = "consumer"
    /\ ready_queue[cur] # << >>
    /\ LET word == Head(ready_queue[cur])[1]
           path == Head(ready_queue[cur])[2]
       IN
       /\ ready_queue' = [ready_queue EXCEPT ![cur] = Tail(@)]
       /\ \E ok \in LoadOutcomes(path) :
            IF ok
              THEN /\ voice_cache' = (word :> DefaultSoundVolume) @@ voice_cache
                   /\ logged' = None
                   /\ IF ShouldAutoPlay(pending_play, word)
                        THEN /\ pending_play' = None
                             /\ played' = word
                        ELSE /\ pending_play' = pending_play
                             /\ played' = None
              ELSE /\ UNCHANGED << voice_cache, pending_play >>
                   /\ played' = None
                   /\ logged' = LogGenerated(word)
    /\ UNCHANGED << mixer_ok, crashed, disk, cur, generation_queue, generating_words,
                    lock, worker, se_cache, volume_bgm, volume_se, volume_voice,
                    cpc, cword >>

\* Mutant: update forgets the auto-play request when it returns.
UpdateReleaseClear ==
    /\ ~crashed
    /\ cpc = "update"
    /\ lock[cur] = "consumer"
    /\ ready_queue[cur] = << >>
    /\ lock' = [lock EXCEPT ![cur] = "free"]
    /\ cpc' = "idle"
    /\ played' = None
    /\ logged' = None
    /\ pending_play' = None
    /\ UNCHANGED << mixer_ok, crashed, disk, cur, generation_queue, ready_queue,
                    generating_words, worker, voice_cache, se_cache,
                    volume_bgm, volume_se, volume_voice, cword >>

\* The loop ends on an empty ready_queue and the lock is released.
UpdateRelease ==
    /\ ~crashed
    /\ cpc = "update"
    /\ lock[cur] = "consumer"
    /\ ready_queue[cur] = << >>
    /\ lock' = [lock EXCEPT ![cur] = "free"]
    /\ cpc' = "idle"
    /\ played' = None
    /\ logged' = None
    /\ UNCHANGED << mixer_ok, crashed, disk, cur, generation_queue, ready_queue,
                    generating_words, worker, voice_cache, se_cache, pending_play,
                    volume_bgm, volume_se, volume_voice, cword >>

\* ------------------------------------------------------- volumes and effects

\* pygame.mixer.music.set_volume raises pygame.error when the mixer is not
\* initialised, and nothing catches it.
SetVolumeBgm(vol) ==
    /\ ~crashed
    /\ cpc = "idle"
    /\ volume_bgm' = Clamp(vol)
    /\ crashed' = ~mixer_ok
    /\ played' = None
    /\ logged' = None
    /\ UNCHANGED << mixer_ok, disk, cur, shared, worker, voice_cache,
                    se_cache, pending_play, volume_se, volume_voice, cpc, cword >>
\* Mutant: set_volume_se runs over the voice assets as well.
SetVolumeSeAll(vol) ==
    /\ ~crashed
    /\ cpc = "idle"
    /\ volume_se' = Clamp(vol)
    /\ se_cache' = SetAll(se_cache, volume_se')
    /\ voice_cache' = SetAll(voice_cache, volume_se')
    /\ played' = None
    /\ logged' = None
    /\ UNCHANGED << mixer_ok, crashed, disk, cur, shared, worker,
                    pending_play, volume_bgm, volume_voice, cpc, cword >>

\* set_volume_se                                         sound_manager.py:92-96
SetVolumeSe(vol) ==
    /\ ~crashed
    /\ cpc = "idle"
    /\ volume_se' = Clamp(vol)
    /\ se_cache' = SetAll(se_cache, volume_se')
    /\ played' = None
    /\ logged' = None
    /\ UNCHANGED << mixer_ok, crashed, disk, cur, shared, worker, voice_cache,
                    pending_play, volume_bgm, volume_voice, cpc, cword >>

\* set_volume_voice                                     sound_manager.py:98-102
SetVolumeVoice(vol) ==
    /\ ~crashed
    /\ cpc = "idle"
    /\ volume_voice' = Clamp(vol)
    /\ voice_cache' = SetAll(voice_cache, volume_voice')
    /\ played' = None
    /\ logged' = None
    /\ UNCHANGED << mixer_ok, crashed, disk, cur, shared, worker, se_cache,
                    pending_play, volume_bgm, volume_se, cpc, cword >>

\* play_se                                             sound_manager.py:104-120
PlaySe(filename) ==
    /\ ~crashed
    /\ cpc = "idle"
    /\ IF filename \in DOMAIN se_cache
         THEN /\ played' = << filename >>
              /\ UNCHANGED se_cache
       ELSE IF filename \notin SoundDirFiles
         THEN /\ played' = None
              /\ UNCHANGED se_cache
       ELSE /\ se_cache' = (filename :> volume_se) @@ se_cache
            /\ played' = << filename >>
    /\ logged' = None
    /\ UNCHANGED << mixer_ok, crashed, disk, cur, shared, worker, voice_cache,
                    pending_play, volume_bgm, volume_se, volume_voice, cpc, cword >>

\* -------------------------------------------------------------- restart

\* Game._on_restart -> _init_game_state: a new SoundManager with its own
\* queue, set, channel, lock and worker thread, then the saved volumes are
\* applied.  The previous object's thread is never stopped.  The saved volumes
\* are the levels last applied (SettingsScreen._apply_volume stores each level
\* it sets, main.py:1366-1376), that is, the current levels.
\*                                          main.py:1472-1480, 1626-1629
Restart ==
    /\ ~crashed
    /\ cpc = "idle"
    /\ cur < MaxManagers
    /\ cur' = cur + 1
    /\ generation_queue' = Append(generation_queue, << >>)
    /\ ready_queue' = Append(ready_queue, << >>)
    /\ generating_words' = Append(generating_words, {})
    /\ lock' = Append(lock, "free")
    /\ wpc' = Append(wpc, "idle")
    /\ word_to_process' = Append(word_to_process, None)
    /\ voice_cache' = << >>
    /\ se_cache' = << >>
    /\ pending_play' = None
    /\ volume_bgm' = Clamp(volume_bgm)
    /\ volume_se' = Clamp(volume_se)
    /\ volume_voice' = Clamp(volume_voice)
    /\ played' = None
    /\ logged' = None
    /\ UNCHANGED << mixer_ok, crashed, disk, cpc, cword >>

\* ------------------------------------------------------------ specification

Worker(m) ==
    \/ WorkerAcquirePop(m)
    \/ WorkerPop(m)
    \/ WorkerSleep(m)
    \/ WorkerOpen(m)
    \/ WorkerGenerateFail(m)
    \/ WorkerSaveFail(m)
    \/ WorkerSaveDone(m)
    \/ WorkerAcquirePublish(m)
    \/ WorkerPublish(m)
    \/ WorkerAcquireExcept(m)
    \/ WorkerDiscard(m)

\* The voice pipeline of one SoundManager.
Voice ==
    \/ \E w \in Words : PlayVoice(w)
    \/ PlayVoiceAcquire
    \/ PlayVoiceEnqueue
    \/ UpdateAcquire
    \/ UpdateRecord
    \/ UpdateRelease

\* The worker while the backend and the disk do not fail.
WorkerReliable(m) ==
    \/ WorkerAcquirePop(m)
    \/ WorkerPop(m)
    \/ WorkerSleep(m)
    \/ WorkerOpen(m)
    \/ WorkerSaveDone(m)
    \/ WorkerAcquirePublish(m)
    \/ WorkerPublish(m)

\* The daemon threads die with the process.
Workers == \E m \in 1..cur : ~crashed /\ Worker(m)

WorkersReliable == \E m \in 1..cur : ~crashed /\ WorkerReliable(m)

\* One run of the game without a restart.
Next ==
    \/ \E saved \in SavedFiles : ApplySavedVolumes(saved)
    \/ Voice
    \/ \E vol \in VolInputs : SetVolumeVoice(vol)
    \/ Workers

Spec == Init /\ [][Next]_vars

\* The voice pipeline of one run (the volumes stay as saved) when the threads
\* are scheduled fairly: the worker thread keeps running its loop and gets the lock when it is free again and again (every
\* backend call returns or raises), and the game loop leaves the with blocks
\* of play_voice and update, whose bodies do not block.
NextFair ==
    \/ ApplySavedVolumes(DefaultSave)
    \/ Voice
    \/ Workers

SpecFair ==
    /\ Init
    /\ [][NextFair]_vars
    /\ SF_vars(~crashed /\ Worker(1))
    /\ WF_vars(PlayVoiceEnqueue \/ UpdateRecord \/ UpdateRelease)

\* The same run when, in addition, a game loop that waits at the with block of
\* play_voice gets the lock when it is free again and again.
SpecFairLock ==
    /\ Init
    /\ [][NextFair]_vars
    /\ SF_vars(~crashed /\ Worker(1))
    /\ WF_vars(PlayVoiceEnqueue \/ UpdateRecord \/ UpdateRelease)
    /\ SF_vars(PlayVoiceAcquire)

\* A run in which the player restarts the game.
NextRestart ==
    \/ ApplySavedVolumes(DefaultSave)
    \/ Voice
    \/ Restart
    \/ WorkersReliable

SpecRestart == InitFresh /\ [][NextRestart]_vars

\* The event handlers of the game loop between two frames, on a store that
\* earlier runs have filled: requests, sound effects and the three volume
\* channels, while the worker is not scheduled.
NextEffects ==
    \/ \E saved \in SavedFiles : ApplySavedVolumes(saved)
    \/ \E w \in Words : PlayVoice(w)
    \/ PlayVoiceAcquire
    \/ PlayVoiceEnqueue
    \/ \E vol \in VolInputs : SetVolumeBgm(vol)
    \/ \E vol \in VolInputs : SetVolumeSe(vol)
    \/ \E vol \in VolInputs : SetVolumeVoice(vol)
    \/ \E f \in SeNames : PlaySe(f)

SpecEffects == Init /\ [][NextEffects]_vars

\* ================================================================== claims

Range(q) == { q[i] : i \in 1..Len(q) }

\* The word a worker has popped and not yet finished with.
InFlight(m) ==
    IF wpc[m] \in { "generate", "save", "saved", "publish", "except", "discard" }
      THEN { word_to_process[m] }
      ELSE { }

\* What "lower-cased and trimmed" gives for the input words, written out.
CanonKeys == { << "a" >>, << "b" >> }
CanonPath(k) == << "assets", "voice", k \o << ".mp3" >> >>
ClampTo01(v) == IF v < 0 THEN 0 ELSE IF v > 10 THEN 10 ELSE v

\* C1: no key occurs twice in a generation_queue, and no key that a worker is
\* synthesizing is in that worker's generation_queue: play_voice never
\* enqueues a key that is still queued or in flight.
C1_Dedup ==
    \A m \in 1..cur :
        /\ \A i, j \in 1..Len(generation_queue[m]) :
               i # j => generation_queue[m][i] # generation_queue[m][j]
        /\ InFlight(m) \cap Range(generation_queue[m]) = { }

\* C1 witness: a second play_voice of a word is in its critical section while
\* the worker is synthesizing that word.
C1_Witness ==
    /\ cpc = "pv_cs"
    /\ wpc[cur] = "save"
    /\ cword = word_to_process[cur]
    /\ generation_queue[cur] = << >>

\* C2: generating_words is exactly the keys queued or in flight.
C2_PendingSetExact ==
    \A m \in 1..cur :
        generating_words[m] = Range(generation_queue[m]) \cup InFlight(m)

\* C2 witness: one key in flight and another queued, both marked pending.
C2_Witness ==
    /\ lock[cur] = "free"
    /\ wpc[cur] = "save"
    /\ Len(generation_queue[cur]) = 1
    /\ Cardinality(generating_words[cur]) = 2

\* C3: the step that ends a failed attempt removes the key from
\* generating_words, leaving only the keys still queued; and a play_voice that
\* reaches its critical section with a key that is neither queued nor in
\* flight appends it to generation_queue.
C3_FailureNoLockout ==
    [][ /\ \A m \in 1..cur :
              (wpc[m] = "discard" /\ wpc'[m] = "idle") =>
                  /\ word_to_process[m] \notin generating_words'[m]
                  /\ generating_words'[m] = Range(generation_queue'[m])
        /\ (cpc = "pv_cs" /\ cpc' = "idle"
              /\ cword \notin Range(generation_queue[cur]) \cup InFlight(cur)) =>
                  generation_queue'[cur] = Append(generation_queue[cur], cword)
      ]_vars

\* C3 witness: a failed attempt for the only pending key is about to end while
\* the consumer asks for that key again.
C3_Witness ==
    /\ wpc[cur] = "discard"
    /\ generation_queue[cur] = << >>
    /\ generating_words[cur] = { word_to_process[cur] }
    /\ cpc = "pv_lock"
    /\ cword = word_to_process[cur]

C5_ProcessedIsCachedAndStored ==
    [][ UpdateRecord =>
           LET k == Head(ready_queue[cur])[1]
               path == Head(ready_queue[cur])[2]
           IN  k \in DOMAIN voice_cache' /\ FileState(path) = "full"
      ]_vars

\* C6: every key held by the memory cache, the pending set, the queues, the
\* workers and pending_play is the lower-cased, trimmed form of an input word,
\* and every file looked up, written or announced is at the one path derived
\* from such a key.
C6_Normalized ==
    /\ DOMAIN voice_cache \subseteq CanonKeys
    /\ pending_play \in CanonKeys \cup { None }
    /\ cword \in CanonKeys \cup { None }
    /\ DOMAIN disk \subseteq { CanonPath(k) : k \in CanonKeys }
    /\ \A m \in 1..cur :
         /\ generating_words[m] \subseteq CanonKeys
         /\ Range(generation_queue[m]) \subseteq CanonKeys
         /\ word_to_process[m] \in CanonKeys \cup { None }
         /\ \A r \in Range(ready_queue[m]) :
               r[1] \in CanonKeys /\ r[2] = CanonPath(r[1])

\* C6 witness: a file written by the worker has been announced and is found
\* again by play_voice under the same key.
C6_Witness ==
    /\ played = << "a" >>
    /\ << "a" >> \in DOMAIN voice_cache
    /\ Len(ready_queue[cur]) = 1
    /\ ready_queue[cur][1] = << << "a" >>, CanonPath(<< "a" >>) >>
    /\ cpc = "idle"

\* C7: set_volume_voice(v) leaves every asset of voice_cache at the clamped v,
\* and set_volume_se(v) every asset of se_cache, whatever their number.
C7_VolumeAppliesToAll ==
    [][ /\ \A v \in VolInputs :
              SetVolumeVoice(v) =>
                  /\ DOMAIN voice_cache' = DOMAIN voice_cache
                  /\ \A k \in DOMAIN voice_cache' : voice_cache'[k] = ClampTo01(v)
        /\ \A v \in VolInputs :
              SetVolumeSe(v) =>
                  /\ DOMAIN se_cache' = DOMAIN se_cache
                  /\ \A f \in DOMAIN se_cache' : se_cache'[f] = ClampTo01(v)
      ]_vars

\* C7 witness: two voice assets and two effects, all at levels only a setter
\* gives.
C7_Witness ==
    /\ Cardinality(DOMAIN voice_cache) = 2
    /\ Cardinality(DOMAIN se_cache) = 2
    /\ volume_voice = 0
    /\ volume_se = 5
    /\ \A k \in DOMAIN voice_cache : voice_cache[k] = 0
    /\ \A f \in DOMAIN se_cache : se_cache[f] = 5

\* C8: an update that finds ready_queue empty changes none of voice_cache,
\* pending_play, generation_queue, generating_words and ready_queue, plays
\* nothing, and ends with the lock released.
C8_EmptyUpdateNoOp ==
    [][ (cpc = "update" /\ ready_queue[cur] = << >> /\ cpc' # cpc) =>
           /\ cpc' = "idle"
           /\ lock'[cur] = "free"
           /\ played' = None
           /\ UNCHANGED << voice_cache, pending_play, generation_queue,
                           generating_words, ready_queue >>
      ]_vars

\* C8 witness: update holds the lock with nothing ready while a request is
\* pending and being synthesized.
C8_Witness ==
    /\ cpc = "update"
    /\ ready_queue[cur] = << >>
    /\ pending_play # None
    /\ wpc[cur] = "save"
    /\ voice_cache # << >>

\* C9: a worker holds its lock only inside its three critical sections, never
\* while it generates, saves or sleeps.
C9_LockOnlyInCriticalSections ==
    \A m \in 1..cur :
        lock[m] = "worker" <=> wpc[m] \in { "pop", "publish", "discard" }

\* C9 witness: the consumer takes the lock while the worker is saving.
C9_Witness ==
    /\ wpc[cur] = "save"
    /\ cpc = "pv_cs"
    /\ lock[cur] = "consumer"

\* C10: at most one synthesis job is in progress at any time.
C10_OneSynthesisAtATime ==
    Cardinality({ m \in 1..cur : wpc[m] \in { "generate", "save" } }) <= 1

\* C11: keys leave generation_queue in the order they entered it: the queue
\* only changes by gaining one key at its tail or by losing its head, and the
\* worker starts a synthesis only for the head it has just removed.
C11_FifoService ==
    [][ \A m \in 1..cur :
          LET q == generation_queue[m]
              q2 == generation_queue'[m]
          IN
          /\ q2 # q =>
               \/ /\ q # << >>
                  /\ q2 = Tail(q)
                  /\ wpc'[m] = "generate"
                  /\ word_to_process'[m] = Head(q)
               \/ /\ Len(q2) = Len(q) + 1
                  /\ SubSeq(q2, 1, Len(q)) = q
          /\ (wpc[m] # "generate" /\ wpc'[m] = "generate") =>
               /\ q # << >>
               /\ word_to_process'[m] = Head(q)
               /\ q2 = Tail(q)
          /\ (wpc[m] = "generate" /\ wpc'[m] = "save") =>
               /\ word_to_process'[m] = word_to_process[m]
               /\ FileState(CanonPath(word_to_process[m]))' = "partial"
      ]_vars

\* C11 witness: the worker is about to pop while two keys are queued, "b"
\* accepted before "a".
C11_Witness ==
    /\ wpc[cur] = "pop"
    /\ generation_queue[cur] = << << "b" >>, << "a" >> >>

\* C12: a synthesis whose save returned goes on to append exactly one record,
\* (its key, the path of its key), and to nothing else; and a ready_queue
\* changes in no other way than by that append or by update removing its head,
\* in a step that processes exactly that record: the key is cached, or the
\* load error of that key is reported.
C12_RecordsExactlyOnce ==
    [][ \A m \in 1..cur :
          LET r == ready_queue[m]
              r2 == ready_queue'[m]
              k == word_to_process[m]
          IN
          /\ wpc[m] = "saved" => wpc'[m] \in { "saved", "publish" }
          /\ (wpc[m] = "publish" /\ wpc'[m] # "publish") =>
               r2 = Append(r, << k, CanonPath(k) >>)
          /\ r2 # r =>
               \/ /\ wpc[m] = "publish"
                  /\ wpc'[m] = "idle"
                  /\ r2 = Append(r, << k, CanonPath(k) >>)
               \/ /\ m = cur
                  /\ cpc = "update"
                  /\ lock[m] = "consumer"
                  /\ r # << >>
                  /\ r2 = Tail(r)
                  /\ \/ /\ Head(r)[1] \in DOMAIN voice_cache'
                        /\ logged' = None
                     \/ /\ logged' = LogGenerated(Head(r)[1])
                        /\ voice_cache' = voice_cache
      ]_vars

\* C12 witness: update has just processed and played one record while another
\* record, appended by the worker meanwhile or before, waits in ready_queue.
C12_Witness ==
    /\ cpc = "update"
    /\ played # None
    /\ Len(ready_queue[cur]) = 1

\* C13: when the audio subsystem failed to initialise, no SoundManager
\* operation lets an exception escape; in particular the three set_volume
\* calls made right after construction return normally, so the game loop is
\* running.
C13_NoFatalAudioError ==
    ~mixer_ok => ~crashed

\* C14: a volume setter called with v stores v when 0 <= v <= 1, 0 when v < 0
\* and 1 when v > 1 (in tenths: 0..10), for each of the three channels and for
\* the saved values applied at startup; and the three levels are within 0..10
\* in every state.
C14_VolumeClamped ==
    /\ [](volume_bgm \in 0..10 /\ volume_se \in 0..10 /\ volume_voice \in 0..10)
    /\ [][ /\ \A v \in VolInputs :
                /\ SetVolumeBgm(v) => volume_bgm' = ClampTo01(v)
                /\ SetVolumeSe(v) => volume_se' = ClampTo01(v)
                /\ SetVolumeVoice(v) => volume_voice' = ClampTo01(v)
           /\ \A saved \in SavedFiles :
                ApplySavedVolumes(saved) =>
                    /\ volume_bgm' = ClampTo01(saved.bgm)
                    /\ mixer_ok => /\ volume_se' = ClampTo01(saved.se)
                                   /\ volume_voice' = ClampTo01(saved.voice)
         ]_vars

\* C14 witness: the three channels at limits that only the setters give: bgm
\* after a value above 1, se after a value below 0, voice after a value above
\* 1, with two voice assets loaded.
C14_Witness ==
    /\ volume_bgm = 10
    /\ volume_se = 0
    /\ volume_voice = 10
    /\ Cardinality(DOMAIN voice_cache) = 2

\* C15: under fair scheduling, every key in generation_queue is eventually
\* popped and its synthesis attempted, and every key in generating_words is
\* eventually removed from it, whatever requests follow.
C15_Progress ==
    \A k \in CanonKeys :
        /\ (k \in Range(generation_queue[1])) ~>
               (wpc[1] = "generate" /\ word_to_process[1] = k)
        /\ (k \in generating_words[1]) ~> (k \notin generating_words[1])

\* C15 witness: a key waits in the queue behind the key being synthesized
\* while the game loop is inside another play_voice call.
C15_Witness ==
    /\ wpc[1] = "save"
    /\ word_to_process[1] = << "a" >>
    /\ generation_queue[1] = << << "b" >> >>
    /\ cpc = "pv_cs"
    /\ cword = << "a" >>

\* C16: the steps of a failed synthesis (the exception, taking the lock, the
\* discard) leave ready_queue and generation_queue as they are and never lead
\* to a publish; a key enters a generation_queue only in the critical section
\* of a play_voice call for that key, and a synthesis starts only for a key
\* taken from the queue.
C16_FailureNoRepublish ==
    [][ \A m \in 1..cur :
          /\ ( \/ wpc[m] \in { "generate", "save" } /\ wpc'[m] = "except"
               \/ wpc[m] = "except" /\ wpc'[m] = "discard"
               \/ wpc[m] = "discard" /\ wpc'[m] = "idle" ) =>
                 /\ ready_queue'[m] = ready_queue[m]
                 /\ generation_queue'[m] = generation_queue[m]
          /\ wpc[m] \in { "except", "discard" } =>
                 wpc'[m] \in { "except", "discard", "idle" }
          /\ \A k \in Range(generation_queue'[m]) \ Range(generation_queue[m]) :
                 /\ m = cur
                 /\ cpc = "pv_cs"
                 /\ cword = k
                 /\ cpc' = "idle"
          /\ (wpc[m] # "generate" /\ wpc'[m] = "generate") =>
                 /\ generation_queue[m] # << >>
                 /\ word_to_process'[m] = Head(generation_queue[m])
      ]_vars

\* C16 witness: the synthesis of "a" has just failed, after the record of "b"
\* was published; "a" is not queued and has no record.
C16_Witness ==
    /\ logged = LogTTS(<< "a" >>)
    /\ wpc[cur] = "except"
    /\ generation_queue[cur] = << >>
    /\ Len(ready_queue[cur]) = 1
    /\ ready_queue[cur][1][1] = << "b" >>

\* C17: a play_voice(w) for a non-empty key that plays nothing (neither a
\* memory hit nor a successful disk load) sets pending_play to normalize(w)
\* whatever it was; pending_play is still that key while the call waits for
\* the lock and when it returns, also when the key is already in
\* generating_words and is not queued again; and pending_play is always one
\* key or None.
C17_PendingOverwritten ==
    /\ [](/\ pending_play \in CanonKeys \cup { None }
          /\ cpc \in { "pv_lock", "pv_cs" } => pending_play = cword /\ cword # None)
    /\ [][ /\ \A w \in Words :
                (PlayVoice(w) /\ Normalize(w) # << >> /\ played' = None) =>
                    /\ pending_play' = Normalize(w)
                    /\ cword' = Normalize(w)
                    /\ cpc' = "pv_lock"
           /\ (cpc = "pv_cs" /\ cpc' = "idle") =>
                    /\ pending_play' = cword
                    /\ cword \in generating_words[cur] =>
                          generation_queue'[cur] = generation_queue[cur]
         ]_vars

\* C17 witness: "b" was requested, then "a", then "b" again: the third call is
\* in its critical section with "b" still queued, and pending_play, which was
\* "a", is "b".
C17_Witness ==
    /\ cpc = "pv_cs"
    /\ cword = << "b" >>
    /\ pending_play = << "b" >>
    /\ generation_queue[cur] = << << "b" >>, << "a" >> >>
    /\ wpc[cur] = "idle"

\* C18: when update processes a record (k, path) whose asset loads (a
\* completely written file always does), k is in voice_cache afterwards with
\* the newly loaded asset and no other entry changes; if k is pending_play the
\* asset is played and pending_play becomes None, otherwise nothing is played
\* and pending_play is unchanged.
C18_UpdateProcessesRecord ==
    [][ UpdateRecord =>
          LET k == Head(ready_queue[cur])[1]
              path == Head(ready_queue[cur])[2]
          IN
          /\ FileState(path) = "full" => logged' = None
          /\ logged' = None =>
               /\ DOMAIN voice_cache' = DOMAIN voice_cache \cup { k }
               /\ voice_cache'[k] = DefaultSoundVolume
               /\ \A j \in DOMAIN voice_cache \ { k } : voice_cache'[j] = voice_cache[j]
               /\ IF k = pending_play
                    THEN played' = k /\ pending_play' = None
                    ELSE played' = None /\ pending_play' = pending_play
      ]_vars

\* C18 witness: update has just loaded and played the pending key "a" while
\* "b" is cached; pending_play is None again.
C18_Witness ==
    /\ cpc = "update"
    /\ played = << "a" >>
    /\ logged = None
    /\ pending_play = None
    /\ DOMAIN voice_cache = { << "a" >>, << "b" >> }

\* C19: when play_voice(w) finds the file of its key but the load fails, the
\* error is printed and not raised, voice_cache is unchanged, nothing is
\* played, and the call goes on as for a miss: pending_play becomes the key,
\* and in its critical section the key is appended to generation_queue and
\* added to generating_words unless it is in generating_words already.
C19_CorruptFileIsMiss ==
    [][ /\ \A w \in Words :
              LET word == Normalize(w) IN
              ( /\ PlayVoice(w)
                /\ word # << >>
                /\ word \notin DOMAIN voice_cache
                /\ FileState(CanonPath(word)) # "none"
                /\ played' = None ) =>
                    /\ logged' = LogVoiceCache(word)
                    /\ ~crashed'
                    /\ voice_cache' = voice_cache
                    /\ pending_play' = word
                    /\ cword' = word
                    /\ cpc' = "pv_lock"
        /\ (cpc = "pv_cs" /\ cpc' = "idle") =>
              /\ ~crashed'
              /\ played' = None
              /\ voice_cache' = voice_cache
              /\ IF cword \in generating_words[cur]
                   THEN /\ generation_queue'[cur] = generation_queue[cur]
                        /\ generating_words'[cur] = generating_words[cur]
                   ELSE /\ generation_queue'[cur] = Append(generation_queue[cur], cword)
                        /\ generating_words'[cur] = generating_words[cur] \cup { cword }
      ]_vars

\* C19 witness: the file of the requested key, left truncated by an earlier
\* run, has just failed to load; no worker is writing it and the key is not
\* pending yet.
C19_Witness ==
    /\ cpc = "pv_lock"
    /\ logged = LogVoiceCache(cword)
    /\ FileState(CanonPath(cword)) = "partial"
    /\ wpc[cur] = "idle"
    /\ generating_words[cur] = { }
    /\ pending_play = cword

\* C20: update never raises; when the load of a record (k, path) fails in
\* update (an error is printed, or k is not cached afterwards), the error is
\* printed, the record is gone from ready_queue, voice_cache is
\* unchanged (k stays absent), nothing is played, pending_play is unchanged,
\* and update still holds the lock and goes on with the remaining records: it
\* does not return while records remain.  A later play_voice of a key that is
\* not in voice_cache tries the disk again: a completely written file is
\* loaded and played, and a load that fails leads to the critical section,
\* where the key is queued unless it is pending.
C20_UpdateLoadFailure ==
    [][ /\ cpc = "update" => ~crashed'
        /\ (UpdateRecord /\ (logged' # None
                              \/ Head(ready_queue[cur])[1] \notin DOMAIN voice_cache')) =>
              LET k == Head(ready_queue[cur])[1] IN
              /\ logged' = LogGenerated(k)
              /\ ~crashed'
              /\ ready_queue'[cur] = Tail(ready_queue[cur])
              /\ voice_cache' = voice_cache
              /\ played' = None
              /\ pending_play' = pending_play
              /\ cpc' = "update"
              /\ lock'[cur] = "consumer"
        /\ (cpc = "update" /\ ready_queue[cur] # << >>) => cpc' = "update"
        /\ \A w \in Words :
              LET word == Normalize(w) IN
              (PlayVoice(w) /\ word # << >> /\ word \notin DOMAIN voice_cache) =>
                  /\ FileState(CanonPath(word)) = "full" => played' = word
                  /\ \/ /\ played' = word
                        /\ word \in DOMAIN voice_cache'
                        /\ FileState(CanonPath(word)) # "none"
                     \/ /\ played' = None
                        /\ pending_play' = word
                        /\ cpc' = "pv_lock"
        /\ (cpc = "pv_cs" /\ cpc' = "idle" /\ cword \notin generating_words[cur]) =>
              generation_queue'[cur] = Append(generation_queue[cur], cword)
      ]_vars

\* C20 witness: update has just failed to load the record of "a", which is
\* not cached, and another record waits in the same drain.
C20_Witness ==
    /\ cpc = "update"
    /\ logged = LogGenerated(<< "a" >>)
    /\ << "a" >> \notin DOMAIN voice_cache
    /\ ready_queue[cur] # << >>

\* C21: a play_voice(w) whose key is in voice_cache sets that asset to the
\* current voice volume and plays it, in one step that leaves every other
\* asset, the key set of voice_cache, pending_play, generation_queue,
\* generating_words and ready_queue unchanged and takes no lock.
C21_MemoryHit ==
    [][ \A w \in Words :
          LET word == Normalize(w) IN
          (PlayVoice(w) /\ word \in DOMAIN voice_cache) =>
              /\ played' = word
              /\ voice_cache'[word] = volume_voice
              /\ DOMAIN voice_cache' = DOMAIN voice_cache
              /\ \A j \in DOMAIN voice_cache \ { word } : voice_cache'[j] = voice_cache[j]
              /\ UNCHANGED << pending_play, generation_queue, generating_words,
                              ready_queue, lock, volume_voice >>
              /\ cpc' = "idle"
      ]_vars

\* C21 witness: the cached "a" has just been played at the voice volume 0.5
\* while "b" is the pending request and is being synthesized; a play_voice of
\* "a" from here is a memory hit and leads to this state again.
C21_Witness ==
    /\ played = << "a" >>
    /\ cpc = "idle"
    /\ volume_voice = 5
    /\ << "a" >> \in DOMAIN voice_cache
    /\ voice_cache[<< "a" >>] = 5
    /\ pending_play = << "b" >>
    /\ wpc[cur] = "save"
    /\ word_to_process[cur] = << "b" >>
    /\ generating_words[cur] = { << "b" >> }

\* C22: a play_voice(w) whose key is not in voice_cache and whose file loads (a
\* completely written file always does) inserts the asset at the current voice
\* volume, plays it, and returns without entering the critical section:
\* generation_queue, generating_words, ready_queue and pending_play are
\* unchanged.
C22_DiskHit ==
    [][ \A w \in Words :
          LET word == Normalize(w) IN
          (PlayVoice(w) /\ word # << >> /\ word \notin DOMAIN voice_cache) =>
              /\ FileState(CanonPath(word)) = "full" => played' = word
              /\ played' = word =>
                   /\ FileState(CanonPath(word)) # "none"
                   /\ DOMAIN voice_cache' = DOMAIN voice_cache \cup { word }
                   /\ voice_cache'[word] = volume_voice
                   /\ \A j \in DOMAIN voice_cache : voice_cache'[j] = voice_cache[j]
                   /\ UNCHANGED << pending_play, generation_queue, generating_words,
                                   ready_queue, lock >>
                   /\ cpc' = "idle"
      ]_vars

\* C22 witness: with no worker scheduled, both keys have been loaded from the
\* files of an earlier run and sit in voice_cache at the voice volume 0.5 that
\* was set before; "b" was the last one played and nothing was queued.
C22_Witness ==
    /\ played = << "b" >>
    /\ DOMAIN voice_cache = { << "a" >>, << "b" >> }
    /\ volume_voice = 5
    /\ voice_cache[<< "b" >>] = 5
    /\ generation_queue[cur] = << >>
    /\ generating_words[cur] = { }
    /\ pending_play = None
    /\ se_cache = << >>
    /\ volume_bgm = 3
    /\ volume_se = 6

\* C23: a record is appended only when the file of its key is completely
\* written, in the same critical section that removes the key from
\* generating_words; so whenever the worker is outside its critical sections,
\* no key with a record in ready_queue is in generating_words, and a key whose
\* save has returned is in generating_words until its record is appended.
C23_PersistBeforePublish ==
    /\ [][ \A m \in 1..cur :
             ready_queue'[m] # ready_queue[m] /\ Len(ready_queue'[m]) > Len(ready_queue[m]) =>
                 LET r == ready_queue'[m][Len(ready_queue'[m])] IN
                 /\ FileState(r[2]) = "full"
                 /\ r[1] \in generating_words[m]
                 /\ r[1] \notin generating_words'[m]
         ]_vars
    /\ [](\A m \in 1..cur :
            /\ lock[m] # "worker" =>
                 \A i \in 1..Len(ready_queue[m]) :
                     ready_queue[m][i][1] \notin generating_words[m]
            /\ wpc[m] \in { "saved", "publish" } =>
                 word_to_process[m] \in generating_words[m])

\* C24: the lock of a SoundManager is held by the worker exactly in its pop,
\* publish and discard sections and by the game loop exactly in the critical
\* section of play_voice and in update, which are the only places that read
\* generation_queue, generating_words or ready_queue; and a step that changes
\* one of the three is taken by the thread that holds the lock.
C24_SingleLock ==
    /\ [](\A m \in 1..cur :
            /\ lock[m] \in { "free", "worker", "consumer" }
            /\ lock[m] = "worker" <=> wpc[m] \in { "pop", "publish", "discard" }
            /\ lock[m] = "consumer" <=> (m = cur /\ cpc \in { "pv_cs", "update" }))
    /\ [][ \A m \in 1..cur :
             ( \/ generation_queue'[m] # generation_queue[m]
               \/ generating_words'[m] # generating_words[m]
               \/ ready_queue'[m] # ready_queue[m] ) =>
                 \/ lock[m] = "worker" /\ wpc'[m] # wpc[m]
                 \/ lock[m] = "consumer" /\ m = cur /\ wpc'[m] = wpc[m]
         ]_vars

\* C24 witness: play_voice waits for the lock while the worker is inside its
\* publish section, and update's records are waiting.
C24_Witness ==
    /\ cpc = "pv_lock"
    /\ lock[cur] = "worker"
    /\ wpc[cur] = "publish"
    /\ ready_queue[cur] # << >>

\* C25: no step of one SoundManager (play_voice, update, a volume setter, a
\* worker step) removes a key from voice_cache: the key set only grows.
C25_NoEviction ==
    [][ DOMAIN voice_cache \subseteq DOMAIN voice_cache' ]_vars

\* C25 witness: both keys are cached, the voice volume has been set to 0, and
\* update has just failed to load a second record of the cached "a".
C25_Witness ==
    /\ DOMAIN voice_cache = { << "a" >>, << "b" >> }
    /\ volume_voice = 0
    /\ cpc = "update"
    /\ logged = LogGenerated(<< "a" >>)

\* C26: set_volume_voice changes nothing but volume_voice and the volumes of
\* the assets in voice_cache; set_volume_se nothing but volume_se and the
\* volumes of the assets in se_cache; set_volume_bgm nothing but volume_bgm.
\* The other levels, the other cache, pending_play and the three shared
\* collections are unchanged, and the key sets of both caches too.
C26_ChannelIndependence ==
    [][ \A v \in VolInputs :
          /\ SetVolumeVoice(v) =>
               /\ UNCHANGED << volume_bgm, volume_se, se_cache, pending_play,
                               generation_queue, generating_words, ready_queue >>
               /\ DOMAIN voice_cache' = DOMAIN voice_cache
          /\ SetVolumeSe(v) =>
               /\ UNCHANGED << volume_bgm, volume_voice, voice_cache, pending_play,
                               generation_queue, generating_words, ready_queue >>
               /\ DOMAIN se_cache' = DOMAIN se_cache
          /\ SetVolumeBgm(v) =>
               UNCHANGED << volume_se, volume_voice, voice_cache, se_cache,
                            pending_play, generation_queue, generating_words,
                            ready_queue >>
      ]_vars

\* C26 witness: the three channels at three different levels that only the
\* setters give, with assets in both caches at their own channel's level and a
\* request pending.
C26_Witness ==
    /\ volume_bgm = 5
    /\ volume_se = 0
    /\ volume_voice = 10
    /\ se_cache # << >>
    /\ \A f \in DOMAIN se_cache : se_cache[f] = 0
    /\ voice_cache # << >>
    /\ \A k \in DOMAIN voice_cache : voice_cache[k] = 10
    /\ pending_play # None
    /\ generation_queue[cur] # << >>

\* C27: in every state each asset in voice_cache has the current voice-channel
\* volume, the assets inserted by update from a completion record included.
C27_CacheAtVoiceVolume ==
    \A k \in DOMAIN voice_cache : voice_cache[k] = volume_voice

\* C28: update does not play a key on account of a pending_play left by a
\* missed call when a later play_voice of that key has been served since: it
\* does not auto-play a key that is in voice_cache already when its record is
\* processed.
C28_NoLeftoverPlay ==
    [][ (UpdateRecord /\ played' # None) =>
            Head(ready_queue[cur])[1] \notin DOMAIN voice_cache
      ]_vars

\* C29: when play_voice loads, caches and plays the file of a key while a
\* worker is inside tts.save for that key, the file is completely written.
C29_NoPartialRead ==
    [][ \A w \in Words :
          LET word == Normalize(w) IN
          ( /\ PlayVoice(w)
            /\ word # << >>
            /\ word \notin DOMAIN voice_cache
            /\ played' = word
            /\ \E m \in 1..cur : /\ wpc[m] = "save"
                                 /\ word_to_process[m] = word ) =>
              FileState(CanonPath(word)) = "full"
      ]_vars

\* C30: after a play_voice call that is served (from the memory cache or from
\* disk), no other word is left to be auto-played: pending_play is None or
\* the word of that call, so update can auto-play only the word of the most
\* recent call.
C30_ServedCallCancelsPending ==
    [][ \A w \in Words :
          LET word == Normalize(w) IN
          (PlayVoice(w) /\ word # << >> /\ played' = word) =>
              pending_play' \in { None, word }
      ]_vars

\* An input that is empty or holds nothing but whitespace.
Blank(w) == \A i \in 1..Len(w) : w[i] = " "

\* C31: play_voice(w) with w empty or all whitespace is a no-op: nothing is
\* played, and voice_cache, pending_play, generation_queue, generating_words
\* and ready_queue are unchanged; the empty key is never queued, handed to the
\* worker, published, cached or the auto-play target.
C31_BlankIsNoOp ==
    /\ [](\A m \in 1..cur :
            /\ << >> \notin Range(generation_queue[m])
            /\ << >> \notin generating_words[m]
            /\ << >> \notin { r[1] : r \in Range(ready_queue[m]) }
            /\ word_to_process[m] # << >>)
    /\ [](<< >> \notin DOMAIN voice_cache /\ pending_play # << >>)
    /\ [][ \A w \in Words :
             (Blank(w) /\ PlayVoice(w)) =>
                 /\ played' = None
                 /\ UNCHANGED << voice_cache, pending_play, generation_queue,
                                 generating_words, ready_queue >>
                 /\ cpc' = "idle"
         ]_vars

\* C31 witness: the game loop is between two calls, where a blank request can
\* arrive, while a key is cached, another is the auto-play target and waits
\* both as a published record and as a queued request.
C31_Witness ==
    /\ ~crashed
    /\ cpc = "idle"
    /\ Len(ready_queue[cur]) < MaxReady
    /\ \E w \in Words : Blank(w) /\ w # << >>
    /\ voice_cache # << >>
    /\ pending_play # None
    /\ generation_queue[cur] # << >>
    /\ generating_words[cur] # {}
    /\ ready_queue[cur] # << >>

\* C32: the lock is released at the end of every critical section on every
\* path.  It is held only by a thread inside one of its with blocks; a load
\* that raises inside update and a synthesis that raises in the worker leave
\* no lock behind; a held lock is released, and a thread that waits for the
\* lock gets it, as long as the process runs.
C32_LockAlwaysReleased ==
    /\ [](\A m \in 1..cur :
            /\ lock[m] = "consumer" <=> (m = cur /\ cpc \in { "pv_cs", "update" })
            /\ lock[m] = "worker" <=> wpc[m] \in { "pop", "publish", "discard" })
    /\ [][ /\ (cpc \in { "pv_cs", "update" } /\ cpc' \notin { "pv_cs", "update" }) =>
                 lock'[cur] = "free"
           /\ \A m \in 1..cur :
                (wpc[m] \in { "pop", "publish", "discard" } /\ wpc'[m] # wpc[m]) =>
                    lock'[m] = "free"
           /\ \A m \in 1..cur :
                (wpc[m] \in { "generate", "save" } /\ wpc'[m] = "except") =>
                    lock'[m] = lock[m] /\ lock'[m] # "worker"
         ]_vars
    /\ (lock[cur] # "free") ~> (lock[cur] = "free" \/ crashed)
    /\ (cpc = "update" /\ \E k \in Keys : logged = LogGenerated(k))
           ~> (lock[cur] = "free" \/ crashed)
    /\ (cpc = "pv_lock") ~> (cpc = "pv_cs" \/ crashed)
    /\ (wpc[cur] \in { "saved", "except" }) ~> (lock[cur] = "worker" \/ crashed)

\* C32 witness: a load has just raised inside update, which still holds the
\* lock, while the worker, whose synthesis raised, waits for the lock.
C32_Witness ==
    /\ ~crashed
    /\ cpc = "update"
    /\ lock[cur] = "consumer"
    /\ \E k \in Keys : logged = LogGenerated(k)
    /\ wpc[cur] = "except"

\* C33: the memory cache is backed by the durable store: every key in
\* voice_cache has a file at the path derived from it; a key enters voice_cache
\* only while that file exists, and no step removes a file.
C33_CacheBackedByStore ==
    /\ [](\A k \in DOMAIN voice_cache : FileState(CanonPath(k)) \in { "partial", "full" })
    /\ [][ /\ \A k \in Keys :
                (k \notin DOMAIN voice_cache /\ k \in DOMAIN voice_cache') =>
                    FileState(CanonPath(k)) # "none"
           /\ \A path \in DOMAIN disk :
                disk[path] # "none" => (path \in DOMAIN disk' /\ disk'[path] # "none")
         ]_vars

\* C33 witness: two keys are cached; the file of one is complete, the file of
\* the other is being written again by the worker.
C33_Witness ==
    \E k, j \in DOMAIN voice_cache :
        /\ k # j
        /\ FileState(CanonPath(k)) = "full"
        /\ FileState(CanonPath(j)) = "partial"
        /\ wpc[cur] = "save"
        /\ word_to_process[cur] = j

====
